---- MODULE Spec2Model ----
(***************************************************************************)
(* Model of the smart-store analytics pipeline:                            *)
(*   data_prep.py   - the three entity cleaners and the clean-stage driver *)
(*   etl_to_dw.py   - the full-refresh warehouse load                      *)
(*   olap/cubing.py - warehouse ingest, cube construction, column naming   *)
(***************************************************************************)
EXTENDS Integers, Sequences, FiniteSets, TLC

(***************************************************************************)
(* Bounds of the model.                                                    *)
(***************************************************************************)
\* Largest number of rows of a raw table handed to a cleaner.
MaxRows == 2
\* Largest number of rows of a prepared file handed to the load.
MaxLoadRows == 2
\* Largest number of load runs in a behaviour.
MaxRuns == 2
\* Largest number of rows of a fact table handed to the cube builder.
MaxFactRows == 3
\* Largest number of rows of a raw file handed to the clean-stage driver.
MaxMainRows == 2
\* Largest number of rows of a raw table that is cleaned twice.
MaxRecleanRows == 5

(***************************************************************************)
(* Cells of a table.  A cell is missing (NaN / NaT), a number, a text or a *)
(* parsed date.  Numbers are kept in quarters (n = 4 * value) so that the  *)
(* median of two values is exact.                                          *)
(***************************************************************************)
NaN == [t |-> "nan", n |-> 0, s |-> <<>>]
Num(x) == [t |-> "num", n |-> 4 * x, s |-> <<>>]
Fixed(q) == [t |-> "num", n |-> q, s |-> <<>>]
Str(cs) == [t |-> "str", n |-> 0, s |-> cs]
Date(d) == [t |-> "date", n |-> d, s |-> <<>>]
IsNull(c) == c.t = "nan"

(***************************************************************************)
(* Text helpers: str.upper(), str.strip(), and decimal parsing.            *)
(***************************************************************************)
UpperChar(ch) ==
  CASE ch = "a" -> "A"
    [] ch = "b" -> "B"
    [] ch = "c" -> "C"
    [] ch = "x" -> "X"
    [] OTHER -> ch

Upper(cs) == [i \in 1..Len(cs) |-> UpperChar(cs[i])]

RECURSIVE LStrip(_)
LStrip(cs) == IF cs # <<>> /\ Head(cs) = " " THEN LStrip(Tail(cs)) ELSE cs

RECURSIVE RStripSpace(_)
RStripSpace(cs) ==
  IF cs # <<>> /\ cs[Len(cs)] = " "
    THEN RStripSpace(SubSeq(cs, 1, Len(cs) - 1))
    ELSE cs

Strip(cs) == RStripSpace(LStrip(cs))

DigitChars == <<"0", "1", "2", "3", "4", "5", "6", "7", "8", "9">>
IsDigit(ch) == \E i \in 1..Len(DigitChars) : DigitChars[i] = ch
DigitVal(ch) == (CHOOSE i \in 1..Len(DigitChars) : DigitChars[i] = ch) - 1
AllDigits(cs) == cs # <<>> /\ \A i \in 1..Len(cs) : IsDigit(cs[i])

RECURSIVE Decimal(_)
Decimal(cs) ==
  IF cs = <<>> THEN 0
  ELSE 10 * Decimal(SubSeq(cs, 1, Len(cs) - 1)) + DigitVal(cs[Len(cs)])

\* pd.to_numeric(..., errors='coerce') on one cell.
ToNumeric(c) ==
  CASE c.t = "num" -> c
    [] c.t = "str" ->
         IF AllDigits(c.s) THEN Num(Decimal(c.s))
         ELSE IF Len(c.s) > 1 /\ Head(c.s) = "-" /\ AllDigits(Tail(c.s))
           THEN Num(0 - Decimal(Tail(c.s)))
           ELSE NaN
    [] OTHER -> NaN

\* Series.replace(old, new) on one cell: whole-value match only.
ReplaceText(c, old, new) == IF c.t = "str" /\ c.s = old THEN Str(new) ELSE c

\* A date parser that takes text only: a cell that is already a date, or a
\* number, comes out missing.
ToDatetimeTextOnly(c) ==
  IF c.t = "str" /\ AllDigits(c.s) THEN Date(Decimal(c.s)) ELSE NaN

\* pd.to_datetime(..., errors='coerce') on one cell.
ToDatetime(c) ==
  CASE c.t = "date" -> c
    [] c.t = "str" -> IF AllDigits(c.s) THEN Date(Decimal(c.s)) ELSE NaN
    [] c.t = "num" -> Date(c.n)
    [] OTHER -> NaN

(***************************************************************************)
(* Table helpers.  A table is a sequence of rows; a row maps every column  *)
(* name of its entity to a cell.  cols is the set of columns the table     *)
(* really has; the cells of an absent column are never read.               *)
(***************************************************************************)
\* The rows of tbl whose index is in I, in their original order.
Pick(tbl, I) ==
  LET F[k \in 0..Len(tbl)] ==
        IF k = 0 THEN <<>>
        ELSE IF k \in I THEN Append(F[k - 1], tbl[k]) ELSE F[k - 1]
  IN F[Len(tbl)]

SetCol(tbl, c, f(_)) == [i \in 1..Len(tbl) |-> [tbl[i] EXCEPT ![c] = f(@)]]

RECURSIVE InsertInt(_, _)
InsertInt(srt, x) ==
  IF srt = <<>> THEN <<x>>
  ELSE IF x < Head(srt) THEN <<x>> \o srt
  ELSE <<Head(srt)>> \o InsertInt(Tail(srt), x)

\* The numeric values of column c, missing cells left out, ascending.
RECURSIVE ColValues(_, _)
ColValues(tbl, c) ==
  IF tbl = <<>> THEN <<>>
  ELSE IF Head(tbl)[c].t = "num"
    THEN InsertInt(ColValues(Tail(tbl), c), Head(tbl)[c].n)
    ELSE ColValues(Tail(tbl), c)

\* Series.median(): skips missing cells; missing when nothing is left.
Median(tbl, c) ==
  LET v == ColValues(tbl, c)
      N == Len(v)
  IN IF N = 0 THEN NaN
     ELSE IF N % 2 = 1 THEN Fixed(v[(N + 1) \div 2])
     ELSE Fixed((v[N \div 2] + v[N \div 2 + 1]) \div 2)

\* Four times Series.quantile(k / 4) with linear interpolation, for a
\* non-empty ascending v: position k * (N - 1) / 4 between two neighbours.
Quantile4(v, k) ==
  LET p == k * (Len(v) - 1)
      lo == p \div 4 + 1
      fr == p % 4
  IN IF fr = 0 THEN 4 * v[lo] ELSE 4 * v[lo] + fr * (v[lo + 1] - v[lo])

\* Eight times Q1 - 1.5 * IQR and Q3 + 1.5 * IQR.
LowerBound8(v) == 2 * Quantile4(v, 1) - 3 * (Quantile4(v, 3) - Quantile4(v, 1))
UpperBound8(v) == 2 * Quantile4(v, 3) + 3 * (Quantile4(v, 3) - Quantile4(v, 1))
Max(a, b) == IF a >= b THEN a ELSE b

(***************************************************************************)
(* The stages of a cleaner, each a function from table to table.           *)
(***************************************************************************)
\* DataFrame.drop_duplicates(): full-row equality, first occurrence kept.
RemoveDuplicateRecords(tbl) ==
  Pick(tbl, {i \in 1..Len(tbl) : \A j \in 1..(i - 1) : tbl[j] # tbl[i]})

\* drop_duplicates(subset=[key]) keeping the last occurrence.
DropDuplicatesKeepLast(tbl, key) ==
  Pick(tbl, {i \in 1..Len(tbl) :
               \A j \in (i + 1)..Len(tbl) : tbl[j][key] # tbl[i][key]})

\* DataFrame.drop_duplicates(subset=[key], keep='first').
DropDuplicatesOn(tbl, key) ==
  Pick(tbl, {i \in 1..Len(tbl) : \A j \in 1..(i - 1) : tbl[j][key] # tbl[i][key]})

\* replace(sentinel, '0') when a sentinel is given, then pd.to_numeric.
CoerceColumn(tbl, c, sentinel) ==
  LET f(x) == ToNumeric(IF sentinel = <<>> THEN x ELSE ReplaceText(x, sentinel, <<"0">>))
  IN SetCol(tbl, c, f)

\* Series.fillna(v); fillna(NaN) changes nothing.
FillNa(tbl, c, v) ==
  LET f(x) == IF IsNull(x) THEN v ELSE x
  IN SetCol(tbl, c, f)

\* DataFrame.dropna(subset=critical columns the table has).
DropNa(tbl, cs, crit) ==
  Pick(tbl, {i \in 1..Len(tbl) : \A c \in crit \cap cs : ~IsNull(tbl[i][c])})

\* Series.str.upper().str.strip(): a missing cell stays missing.
FormatUpperTrim(tbl, c) ==
  LET f(x) == IF x.t = "str" THEN Str(Strip(Upper(x.s))) ELSE NaN
  IN SetCol(tbl, c, f)

\* df[df[c] >= 0]: a comparison with a missing cell is false.
KeepNonNegative(tbl, c) ==
  Pick(tbl, {i \in 1..Len(tbl) : tbl[i][c].t = "num" /\ tbl[i][c].n >= 0})

\* An outlier filter that checks the lower bound only.
FilterIqrLowerOnly(tbl, c, clamp) ==
  LET v == ColValues(tbl, c)
      lo == IF clamp THEN Max(0, LowerBound8(v)) ELSE LowerBound8(v)
  IN IF v = <<>> THEN <<>>
     ELSE Pick(tbl, {i \in 1..Len(tbl) : tbl[i][c].t = "num" /\ 8 * tbl[i][c].n >= lo})

\* Keep the rows of column c within [Q1 - 1.5 IQR, Q3 + 1.5 IQR], the lower
\* bound clamped to 0 when clamp; the quartiles are NaN on an empty column
\* and every comparison with them is false.
FilterIqr(tbl, c, clamp) ==
  LET v == ColValues(tbl, c)
      lo == IF clamp THEN Max(0, LowerBound8(v)) ELSE LowerBound8(v)
  IN IF v = <<>> THEN <<>>
     ELSE Pick(tbl, {i \in 1..Len(tbl) :
                 /\ tbl[i][c].t = "num"
                 /\ 8 * tbl[i][c].n >= lo
                 /\ 8 * tbl[i][c].n <= UpperBound8(v)})

ParseDates(tbl, c) == SetCol(tbl, c, ToDatetime)

\* sort_values(key).reset_index(drop=True): ascending, equal keys keep
\* their order (tables of this size are insertion-sorted).
RECURSIVE InsertRow(_, _, _)
InsertRow(srt, r, key) ==
  IF srt = <<>> THEN <<r>>
  ELSE IF r[key].n < Head(srt)[key].n THEN <<r>> \o srt
  ELSE <<Head(srt)>> \o InsertRow(Tail(srt), r, key)

RECURSIVE SortValues(_, _)
SortValues(tbl, key) ==
  IF tbl = <<>> THEN <<>>
  ELSE InsertRow(SortValues(SubSeq(tbl, 1, Len(tbl) - 1), key), tbl[Len(tbl)], key)

(***************************************************************************)
(* The three cleaners as ordered lists of steps.  A step names the         *)
(* operation, the column it works on and its parameters; the lists follow  *)
(* the statements of each cleaner from top to bottom.                      *)
(***************************************************************************)
Step(op, col) ==
  [op |-> op, col |-> col, crit |-> {}, val |-> NaN, sentinel |-> <<>>, clamp |-> FALSE]

Unknown == <<"U", "N", "K", "N", "O", "W", "N">>
Uncategorized == <<"U", "N", "C", "A", "T", "E", "G", "O", "R", "I", "Z", "E", "D">>
Free == <<"f", "r", "e", "e">>

SalesCritical ==
  {"TransactionID", "SaleDate", "CustomerID", "ProductID", "StoreID", "SaleAmount"}
CustomersCritical == {"CustomerID", "Name"}
ProductsCritical == {"ProductID", "ProductName"}

\* clean_sales_data with the critical-column drop moved ahead of the fills.
SalesStepsDropBeforeFill ==
  << Step("dedup_all", ""),
     Step("coerce", "SaleAmount"),
     [Step("coerce", "Shipping") EXCEPT !.sentinel = Free],
     [Step("drop", "") EXCEPT !.crit = SalesCritical],
     [Step("fill_const", "CampaignID") EXCEPT !.val = Num(0)],
     Step("fill_median", "Shipping"),
     Step("normalize", "State"),
     Step("nonneg", "SaleAmount"),
     Step("nonneg", "Shipping"),
     Step("iqr", "SaleAmount"),
     Step("date", "SaleDate"),
     Step("sort", "TransactionID"),
     Step("report", "") >>

SalesSteps ==
  << Step("dedup_all", ""),
     Step("coerce", "SaleAmount"),
     [Step("coerce", "Shipping") EXCEPT !.sentinel = Free],
     [Step("fill_const", "CampaignID") EXCEPT !.val = Num(0)],
     Step("fill_median", "Shipping"),
     [Step("drop", "") EXCEPT !.crit = SalesCritical],
     Step("normalize", "State"),
     Step("nonneg", "SaleAmount"),
     Step("nonneg", "Shipping"),
     Step("iqr", "SaleAmount"),
     Step("date", "SaleDate"),
     Step("sort", "TransactionID"),
     Step("report", "") >>

CustomersSteps ==
  << Step("dedup_key", "CustomerID"),
     Step("normalize", "Name"),
     Step("normalize", "Region"),
     [Step("drop", "") EXCEPT !.crit = CustomersCritical],
     [Step("fill_const", "Region") EXCEPT !.val = Str(Unknown)],
     [Step("fill_const", "NumberOfPurshases") EXCEPT !.val = Num(0)],
     [Step("fill_const", "ShoppingFrequency") EXCEPT !.val = Num(0)],
     Step("date", "JoinDate"),
     [Step("iqr", "NumberOfPurshases") EXCEPT !.clamp = TRUE],
     Step("sort", "CustomerID"),
     Step("report", "") >>

ProductsSteps ==
  << Step("dedup_key", "ProductID"),
     Step("normalize", "ProductName"),
     Step("normalize", "Category"),
     [Step("drop", "") EXCEPT !.crit = ProductsCritical],
     [Step("fill_const", "Category") EXCEPT !.val = Str(Uncategorized)],
     Step("coerce", "Price"),
     Step("fill_median", "Price"),
     Step("nonneg", "Price"),
     [Step("iqr", "Price") EXCEPT !.clamp = TRUE],
     Step("sort", "ProductID"),
     Step("report", "") >>

Steps(k) ==
  CASE k = "sales" -> SalesSteps
    [] k = "customers" -> CustomersSteps
    [] k = "products" -> ProductsSteps

Critical(k) ==
  CASE k = "sales" -> SalesCritical
    [] k = "customers" -> CustomersCritical
    [] k = "products" -> ProductsCritical

PrimaryKey(k) ==
  CASE k = "sales" -> "TransactionID"
    [] k = "customers" -> "CustomerID"
    [] k = "products" -> "ProductID"

\* The stage of the cleaning pipeline a step belongs to.
StageOf(op) ==
  CASE op \in {"dedup_all", "dedup_key"} -> "dedup"
    [] op \in {"fill_const", "fill_median"} -> "fill"
    [] op \in {"nonneg", "iqr"} -> "outlier"
    [] OTHER -> op

\* Whether the step runs on a table with columns cs: every step on a named
\* column sits under "if column in df.columns", except the keyed dedup.
StepPerformed(st, cs) ==
  CASE st.op \in {"dedup_all", "dedup_key", "drop"} -> TRUE
    [] st.op = "report" -> FALSE
    [] OTHER -> st.col \in cs

\* The exception the step raises, "none" when it raises nothing: the keyed
\* drop_duplicates needs its column, and the closing log line divides by
\* the number of raw rows.
StepRaises(st, cs, n0) ==
  CASE st.op = "dedup_key" /\ st.col \notin cs -> "KeyError"
    [] st.op = "report" /\ n0 = 0 -> "ZeroDivisionError"
    [] OTHER -> "none"

\* The table after the step.
ApplyStep(st, cs, t) ==
  IF ~StepPerformed(st, cs) THEN t
  ELSE CASE st.op = "dedup_all" -> RemoveDuplicateRecords(t)
         [] st.op = "dedup_key" -> DropDuplicatesOn(t, st.col)
         [] st.op = "coerce" -> CoerceColumn(t, st.col, st.sentinel)
         [] st.op = "fill_const" -> FillNa(t, st.col, st.val)
         [] st.op = "fill_median" -> FillNa(t, st.col, Median(t, st.col))
         [] st.op = "drop" -> DropNa(t, cs, st.crit)
         [] st.op = "normalize" -> FormatUpperTrim(t, st.col)
         [] st.op = "nonneg" -> KeepNonNegative(t, st.col)
         [] st.op = "iqr" -> FilterIqr(t, st.col, st.clamp)
         [] st.op = "date" -> ParseDates(t, st.col)
         [] st.op = "sort" -> SortValues(t, st.col)

\* The cleaner as a function: the table it returns and the exception it
\* raises ("none" when it returns), running its steps from step i on.
RECURSIVE RunSteps(_, _, _, _, _)
RunSteps(k, i, cs, t, n0) ==
  IF i > Len(Steps(k)) THEN [err |-> "none", tbl |-> t]
  ELSE IF StepRaises(Steps(k)[i], cs, n0) # "none"
    THEN [err |-> StepRaises(Steps(k)[i], cs, n0), tbl |-> <<>>]
    ELSE RunSteps(k, i + 1, cs, ApplyStep(Steps(k)[i], cs, t), n0)

Clean(k, cs, t) == RunSteps(k, 1, cs, t, Len(t))

(***************************************************************************)
(* Raw input tables.                                                       *)
(***************************************************************************)
Kinds == {"sales", "customers", "products"}

SalesCols ==
  {"TransactionID", "SaleDate", "CustomerID", "ProductID", "StoreID",
   "CampaignID", "SaleAmount", "Shipping", "State"}
CustomersCols ==
  {"CustomerID", "Name", "Region", "JoinDate", "NumberOfPurshases", "ShoppingFrequency"}
ProductsCols == {"ProductID", "ProductName", "Category", "Price"}

AllCols(k) ==
  CASE k = "sales" -> SalesCols
    [] k = "customers" -> CustomersCols
    [] k = "products" -> ProductsCols

GoodDate == Str(<<"2", "0">>)
BadDate == Str(<<"x">>)
Question == Str(<<"?">>)

SalesRow(tid, date, amt, ship, cust) ==
  [TransactionID |-> tid, SaleDate |-> date, CustomerID |-> cust,
   ProductID |-> Num(1), StoreID |-> Num(1), CampaignID |-> NaN,
   SaleAmount |-> amt, Shipping |-> ship, State |-> Str(<<" ", "a">>)]

RawSalesRows ==
  {SalesRow(tid, date, amt, ship, Num(1)) :
     tid \in {Num(1), Num(2), NaN}, date \in {GoodDate, BadDate},
     amt \in {Num(10), Question}, ship \in {Str(Free), NaN}}
  \cup {SalesRow(Num(2), GoodDate, Num(0 - 4), Num(6), Num(1)),
        SalesRow(Num(1), GoodDate, Num(10), Num(0 - 6), NaN)}

CustomersRow(cid, name, region, joined, purchases) ==
  [CustomerID |-> cid, Name |-> name, Region |-> region, JoinDate |-> joined,
   NumberOfPurshases |-> purchases, ShoppingFrequency |-> NaN]

RawCustomersRows ==
  {CustomersRow(cid, name, NaN, joined, n) :
     cid \in {Num(1), Num(2), NaN}, name \in {Str(<<" ", "a">>), NaN},
     joined \in {GoodDate, BadDate}, n \in {Num(3), NaN}}
  \cup {CustomersRow(Num(2), Str(<<"b", " ">>), Str(<<"c", " ">>), NaN, Num(0 - 1))}

ProductsRow(pid, name, category, price) ==
  [ProductID |-> pid, ProductName |-> name, Category |-> category, Price |-> price]

RawProductsRows ==
  {ProductsRow(pid, name, NaN, price) :
     pid \in {Num(1), Num(2), NaN}, name \in {Str(<<"a", " ">>), NaN},
     price \in {Num(8), Question, NaN, Num(0 - 2)}}
  \cup {ProductsRow(Num(2), Str(<<"b">>), Str(<<" ", "c">>), Str(<<"1", "2">>))}

RawRows(k) ==
  CASE k = "sales" -> RawSalesRows
    [] k = "customers" -> RawCustomersRows
    [] k = "products" -> RawProductsRows

\* A row as a table with columns cs holds it: absent columns hold nothing.
Project(row, cs) == [c \in DOMAIN row |-> IF c \in cs THEN row[c] ELSE NaN]

\* The tables of at most n rows over a set of rows.
TablesOver(rows, n) == UNION {[1..m -> rows] : m \in 0..n}

(***************************************************************************)
(* The warehouse: its tables, their declared columns and the column        *)
(* renames of the load.                                                    *)
(***************************************************************************)
Tables == {"customer", "product", "sale"}

CustomerDeclared ==
  {"customer_id", "name", "region", "join_date", "number_of_purchases",
   "shopping_frequency"}
ProductDeclared ==
  {"product_id", "product_name", "category", "unit_price", "stock_quantity", "supplier"}
SaleDeclared ==
  {"sale_id", "customer_id", "product_id", "store_id", "campaign_id", "sale_amount",
   "sale_date", "shipping", "state"}

Declared(t) ==
  CASE t = "customer" -> CustomerDeclared
    [] t = "product" -> ProductDeclared
    [] t = "sale" -> SaleDeclared

CustomerRename ==
  ("CustomerID" :> "customer_id") @@ ("Name" :> "name") @@ ("Region" :> "region")
  @@ ("JoinDate" :> "join_date") @@ ("NumberOfPurshases" :> "number_of_purchases")
  @@ ("ShoppingFrequency" :> "shopping_frequency")
ProductRename ==
  ("ProductID" :> "product_id") @@ ("ProductName" :> "product_name")
  @@ ("Category" :> "category") @@ ("UnitPrice" :> "unit_price")
  @@ ("StockQuantity" :> "stock_quantity") @@ ("Supplier" :> "supplier")
SaleRename ==
  ("TransactionID" :> "sale_id") @@ ("SaleDate" :> "sale_date")
  @@ ("CustomerID" :> "customer_id") @@ ("ProductID" :> "product_id")
  @@ ("StoreID" :> "store_id") @@ ("CampaignID" :> "campaign_id")
  @@ ("SaleAmount" :> "sale_amount") @@ ("Shipping" :> "shipping")
  @@ ("State" :> "state")

RenameMap(t) ==
  CASE t = "customer" -> CustomerRename
    [] t = "product" -> ProductRename
    [] t = "sale" -> SaleRename

\* DataFrame.rename(columns=map): columns the map does not name are kept.
RenameColumns(cs, map) == {IF c \in DOMAIN map THEN map[c] ELSE c : c \in cs}

\* A prepared CSV file: its header and the primary keys of its rows.
MissingFile == [present |-> FALSE, cols |-> {}, keys |-> <<>>]
File(cs, ks) == [present |-> TRUE, cols |-> cs, keys |-> ks]
NoFrame == [cols |-> {}, keys |-> <<>>]

EmptyRows == [t \in Tables |-> <<>>]
NoDb == [exists |-> FALSE, schema |-> {}, rows |-> EmptyRows]

(***************************************************************************)
(* State.                                                                  *)
(***************************************************************************)
VARIABLES
  kind,     \* the cleaner running: "sales", "customers" or "products"
  df,       \* the table the cleaner was called with
  pass,     \* 1 on raw data, 2 when the cleaner runs on its own output
  cols,     \* the columns of the raw table
  rawLen,   \* initial_shape[0]: the number of raw rows
  tbl,      \* the working table (df_temp)
  pc,       \* the next step of the cleaner; past the last step: returned
  stages,   \* the stages performed so far, in order
  err       \* the exception the cleaner raised, "none" if none

cleanVars == <<kind, df, pass, cols, rawLen, tbl, pc, stages, err>>

VARIABLES
  prepared,   \* the three prepared CSV files of the load run
  frames,     \* customers_df, products_df, sales_df of the load run
  dbFile,     \* the warehouse file: what is committed on disk
  pending,    \* the rows as the load's connection sees them
  loadConn,   \* the connection of load_data_to_db: "none", "open", "closed"
  lpc,        \* the position of load_data_to_db
  lerr,       \* the exception load_data_to_db raised, "none" if none
  runs,       \* the number of load runs started
  dbAtStart,  \* the rows committed when the current load run started
  cubeConn,   \* the connection of ingest_sales_data_from_dw
  cpc,        \* the position of ingest_sales_data_from_dw
  cubeErr,    \* the exception ingest_sales_data_from_dw raised
  salesDf     \* the rows ingest_sales_data_from_dw returned

loadVars ==
  <<prepared, frames, dbFile, pending, loadConn, lpc, lerr, runs, dbAtStart,
    cubeConn, cpc, cubeErr, salesDf>>

VARIABLES
  fact,      \* sales_df handed to create_olap_cube
  dims,      \* dimensions
  measures,  \* measures, in mapping order
  names,     \* what generate_column_names returned
  cube,      \* what create_olap_cube returned
  qpc,       \* "ready", "named" or "cubed"; "main", "main_cubed",
             \* "main_done" or "main_failed" when cubing.main runs
  csv,       \* the lines of the cube file main wrote, header first
  qerr       \* the exception create_olap_cube raised, "none" if none

cubeVars == <<fact, dims, measures, names, cube, qpc, csv, qerr>>

VARIABLES
  rawFiles,  \* the raw input files of data_prep.main, per entity
  mi,        \* the index of the file main is at
  saved,     \* the prepared files main has written, per entity
  handled,   \* the entities main has read, in order
  mainErr,   \* the exception that left main, "none" if none
  mstate     \* "running", "completed" or "aborted"

mainVars == <<rawFiles, mi, saved, handled, mainErr, mstate>>

vars == <<cleanVars, loadVars, cubeVars, mainVars>>

LoadIdle ==
  /\ prepared = [t \in Tables |-> MissingFile]
  /\ frames = [t \in Tables |-> NoFrame]
  /\ dbFile = NoDb
  /\ pending = EmptyRows
  /\ loadConn = "none"
  /\ lpc = "idle"
  /\ lerr = "none"
  /\ runs = 0
  /\ dbAtStart = EmptyRows
  /\ cubeConn = "none"
  /\ cpc = "idle"
  /\ cubeErr = "none"
  /\ salesDf = <<>>

NoCube == [columns |-> <<>>, rows |-> <<>>]

CubeIdle ==
  /\ fact = <<>>
  /\ dims = <<>>
  /\ measures = <<>>
  /\ names = <<>>
  /\ cube = NoCube
  /\ qpc = "ready"
  /\ csv = <<>>
  /\ qerr = "none"

MissingInput == [present |-> FALSE, cols |-> {}, tbl |-> <<>>]
NotSaved == [written |-> FALSE, tbl |-> <<>>]

MainIdle ==
  /\ rawFiles = [k \in Kinds |-> MissingInput]
  /\ mi = 1
  /\ saved = [k \in Kinds |-> NotSaved]
  /\ handled = <<>>
  /\ mainErr = "none"
  /\ mstate = "running"

CleanIdle ==
  /\ kind = "sales"
  /\ df = <<>>
  /\ pass = 1
  /\ cols = {}
  /\ rawLen = 0
  /\ tbl = <<>>
  /\ pc = 1
  /\ stages = <<>>
  /\ err = "none"

(***************************************************************************)
(* The cleaners, step by step.                                             *)
(***************************************************************************)
CleanDone == pc > Len(Steps(kind))
Returned == CleanDone /\ err = "none"

\* Run the step at pc: raise, or transform the table and move on.
RunStep ==
  LET st == Steps(kind)[pc]
      e == StepRaises(st, cols, rawLen)
  IN IF e # "none"
       THEN /\ err' = e
            /\ pc' = Len(Steps(kind)) + 1
            /\ UNCHANGED <<kind, df, pass, cols, rawLen, tbl, stages>>
            /\ UNCHANGED <<loadVars, cubeVars, mainVars>>
       ELSE /\ tbl' = ApplyStep(st, cols, tbl)
            /\ stages' = IF StepPerformed(st, cols)
                           THEN Append(stages, StageOf(st.op))
                           ELSE stages
            /\ pc' = pc + 1
            /\ UNCHANGED <<kind, df, pass, cols, rawLen, err>>
            /\ UNCHANGED <<loadVars, cubeVars, mainVars>>

AtStage(name) == ~CleanDone /\ StageOf(Steps(kind)[pc].op) = name

Deduplicate == AtStage("dedup") /\ RunStep
Coerce == AtStage("coerce") /\ RunStep
FillMissing == AtStage("fill") /\ RunStep
DropCritical == AtStage("drop") /\ RunStep
Normalize == AtStage("normalize") /\ RunStep
FilterOutliers == AtStage("outlier") /\ RunStep
ParseDate == AtStage("date") /\ RunStep
SortByKey == AtStage("sort") /\ RunStep
Report == AtStage("report") /\ RunStep

CleanStart(cs, t) ==
  /\ cols = cs
  /\ df = t
  /\ pass = 1
  /\ tbl = t
  /\ rawLen = Len(t)
  /\ pc = 1
  /\ stages = <<>>
  /\ err = "none"

\* A raw table with every column of its entity.
Init ==
  /\ kind \in Kinds
  /\ \E t \in TablesOver(RawRows(kind), MaxRows) : CleanStart(AllCols(kind), t)
  /\ LoadIdle /\ CubeIdle /\ MainIdle

Next ==
  \/ Deduplicate
  \/ Coerce
  \/ FillMissing
  \/ DropCritical
  \/ Normalize
  \/ FilterOutliers
  \/ ParseDate
  \/ SortByKey
  \/ Report

Spec == Init /\ [][Next]_vars

\* A raw table that lacks one column of its entity.
InitPartial ==
  /\ kind \in Kinds
  /\ \E c \in AllCols(kind) :
       \E t \in TablesOver({Project(r, AllCols(kind) \ {c}) : r \in RawRows(kind)}, MaxRows) :
         CleanStart(AllCols(kind) \ {c}, t)
  /\ LoadIdle /\ CubeIdle /\ MainIdle

SpecPartial == InitPartial /\ [][Next]_vars

(***************************************************************************)
(* Cleaning twice: the cleaner is called on a raw table and then on the    *)
(* table that call returned.  The raw tables are longer here and range     *)
(* over fewer rows: the quartiles of five values can move when the values  *)
(* outside the bounds are taken away.                                      *)
(***************************************************************************)
RecleanSalesRows ==
  {SalesRow(Num(1), GoodDate, Num(1), Str(Free), Num(1)),
   SalesRow(Num(2), GoodDate, Num(1), Str(Free), Num(1)),
   SalesRow(Num(3), GoodDate, Num(1), Str(Free), Num(1)),
   SalesRow(Num(4), GoodDate, Num(2), Str(Free), Num(1)),
   SalesRow(Num(5), GoodDate, Num(4), Str(Free), Num(1)),
   SalesRow(Num(6), BadDate, Num(1), NaN, Num(1))}

RecleanCustomersRows ==
  {CustomersRow(Num(1), Str(<<" ", "a">>), NaN, GoodDate, Num(1)),
   CustomersRow(Num(2), Str(<<" ", "a">>), NaN, GoodDate, Num(1)),
   CustomersRow(Num(3), Str(<<"b", " ">>), NaN, BadDate, Num(1)),
   CustomersRow(Num(4), Str(<<" ", "a">>), NaN, GoodDate, Num(2)),
   CustomersRow(Num(5), NaN, NaN, GoodDate, Num(4))}

RecleanProductsRows ==
  {ProductsRow(Num(1), Str(<<"a", " ">>), NaN, Num(1)),
   ProductsRow(Num(2), Str(<<"a", " ">>), NaN, Str(<<"1">>)),
   ProductsRow(Num(3), Str(<<"b">>), NaN, Num(1)),
   ProductsRow(Num(4), Str(<<"a", " ">>), NaN, Num(2)),
   ProductsRow(Num(5), Str(<<"a", " ">>), NaN, Question)}

RecleanRows(k) ==
  CASE k = "sales" -> RecleanSalesRows
    [] k = "customers" -> RecleanCustomersRows
    [] k = "products" -> RecleanProductsRows

\* cleaner(cleaner(df)): the second call starts on what the first returned.
CleanAgain ==
  /\ Returned
  /\ pass = 1
  /\ pass' = 2
  /\ df' = tbl
  /\ rawLen' = Len(tbl)
  /\ pc' = 1
  /\ stages' = <<>>
  /\ UNCHANGED <<kind, cols, tbl, err>>
  /\ UNCHANGED <<loadVars, cubeVars, mainVars>>

InitReclean ==
  /\ kind \in Kinds
  /\ \E t \in TablesOver(RecleanRows(kind), MaxRecleanRows) : CleanStart(AllCols(kind), t)
  /\ LoadIdle /\ CubeIdle /\ MainIdle

NextReclean ==
  \/ Deduplicate
  \/ Coerce
  \/ FillMissing
  \/ DropCritical
  \/ Normalize
  \/ FilterOutliers
  \/ ParseDate
  \/ SortByKey
  \/ Report
  \/ CleanAgain

SpecReclean == InitReclean /\ [][NextReclean]_vars

SecondCallOver == pass = 2 /\ CleanDone

RECURSIVE StepsThrough(_, _, _, _)
StepsThrough(k, n, cs, t) ==
  IF n = 0 THEN t
  ELSE ApplyStep(Steps(k)[n], cs, StepsThrough(k, n - 1, cs, t))

IqrStep(k) == CHOOSE i \in 1..Len(Steps(k)) : Steps(k)[i].op = "iqr"

\* The SaleAmount values the outlier filter of this call computed its
\* quartiles over, ascending.
FilteredValues == ColValues(StepsThrough(kind, IqrStep(kind) - 1, cols, df), "SaleAmount")

WithinBounds(x, v) ==
  /\ x.t = "num"
  /\ x.n >= 0
  /\ 8 * x.n >= 2 * Quantile4(v, 1) - 3 * (Quantile4(v, 3) - Quantile4(v, 1))
  /\ 8 * x.n <= 2 * Quantile4(v, 3) + 3 * (Quantile4(v, 3) - Quantile4(v, 1))

\* C12 as claimed: every row clean_sales_data returns has a SaleAmount that
\* is non-negative and within [Q1 - 1.5 IQR, Q3 + 1.5 IQR], the quartiles
\* taken over the SaleAmount values of the returned table.
C12_WithinQuartilesOfCleanedTable ==
  (Returned /\ kind = "sales") =>
    \A i \in 1..Len(tbl) :
      WithinBounds(tbl[i]["SaleAmount"], ColValues(tbl, "SaleAmount"))

\* C12 as amended: every row clean_sales_data returns has a SaleAmount that
\* is non-negative and within [Q1 - 1.5 IQR, Q3 + 1.5 IQR], the quartiles
\* taken over the values the filter ran on: those of the rows left after
\* coercion, the critical-column drop and the removal of negative values.
C12_WithinQuartilesOfFilteredValues ==
  (Returned /\ kind = "sales") =>
    \A i \in 1..Len(tbl) : WithinBounds(tbl[i]["SaleAmount"], FilteredValues)

\* The first call on five sales rows removed an outlier and returned the
\* other four.
C12_Witness ==
  /\ Returned
  /\ kind = "sales"
  /\ pass = 1
  /\ Len(df) = 5
  /\ Len(tbl) = 4
  /\ Len(FilteredValues) = 5

(***************************************************************************)
(* Properties of the cleaners.                                             *)
(***************************************************************************)
PkOf(i) == tbl[i][PrimaryKey(kind)]

\* C1: the table a cleaner returns has no null primary key and no two rows
\* with the same primary key.
C1_PrimaryKeyUniqueNonNull ==
  Returned =>
    /\ \A i \in 1..Len(tbl) : ~IsNull(PkOf(i))
    /\ \A i, j \in 1..Len(tbl) : PkOf(i) = PkOf(j) => i = j

\* The position of a stage in the order the pipeline description requires.
RequiredRank(stage) ==
  CASE stage = "dedup" -> 1
    [] stage = "coerce" -> 2
    [] stage = "fill" -> 3
    [] stage = "drop" -> 4
    [] stage = "normalize" -> 5
    [] stage = "outlier" -> 6
    [] stage = "date" -> 7
    [] stage = "sort" -> 8

\* The position of a stage in the order of the customer and product
\* cleaners: normalize and drop come before the fills and coercions, date
\* parsing before the outlier filter.
EntityRank(stage) ==
  CASE stage = "dedup" -> 1
    [] stage = "normalize" -> 2
    [] stage = "drop" -> 3
    [] stage = "fill" -> 4
    [] stage = "coerce" -> 4
    [] stage = "date" -> 5
    [] stage = "outlier" -> 6
    [] stage = "sort" -> 7

InOrder(rank(_)) ==
  \A i, j \in 1..Len(stages) : i < j => rank(stages[i]) <= rank(stages[j])

StagesRun == {stages[i] : i \in 1..Len(stages)}

C6_NoNullInCriticalColumn ==
  Returned =>
    \A c \in Critical(kind) \cap cols : \A i \in 1..Len(tbl) : ~IsNull(tbl[i][c])

\* The CustomerIDs that two or more rows of the raw table hold.
SharedIds ==
  {df[i]["CustomerID"] : i \in
     {k \in 1..Len(df) :
        /\ ~IsNull(df[k]["CustomerID"])
        /\ \E j \in 1..Len(df) : j # k /\ df[j]["CustomerID"] = df[k]["CustomerID"]}}

FirstWith(cid) ==
  CHOOSE i \in 1..Len(df) :
    /\ df[i]["CustomerID"] = cid
    /\ \A j \in 1..(i - 1) : df[j]["CustomerID"] # cid

\* A raw customer row as the cleaner returns it when it keeps it: text
\* upper-cased and trimmed, missing Region and counts filled, date parsed.
AsReturned(r) ==
  LET up(x) == IF x.t = "str" THEN Str(Strip(Upper(x.s))) ELSE NaN
      orElse(x, v) == IF IsNull(x) THEN v ELSE x
  IN [r EXCEPT !["Name"] = up(@),
               !["Region"] = orElse(up(@), Str(Unknown)),
               !["NumberOfPurshases"] = orElse(@, Num(0)),
               !["ShoppingFrequency"] = orElse(@, Num(0)),
               !["JoinDate"] = ToDatetime(@)]

RowsWith(cid) == {i \in 1..Len(tbl) : tbl[i]["CustomerID"] = cid}

\* C14 as claimed: of the raw customer rows that share a CustomerID the
\* cleaner returns exactly one, the first in input order, whatever that
\* first row holds.
C14_FirstDuplicateReturned ==
  (Returned /\ kind = "customers") =>
    \A cid \in SharedIds :
      /\ Cardinality(RowsWith(cid)) = 1
      /\ \A i \in RowsWith(cid) : tbl[i] = AsReturned(df[FirstWith(cid)])

\* C14 as amended: of the raw customer rows that share a CustomerID the
\* cleaner returns at most one, and only ever the first in input order;
\* when that first row has no Name none of them is returned.
C14_OnlyFirstDuplicateReturned ==
  (Returned /\ kind = "customers") =>
    \A cid \in SharedIds :
      /\ Cardinality(RowsWith(cid)) <= 1
      /\ \A i \in RowsWith(cid) : tbl[i] = AsReturned(df[FirstWith(cid)])
      /\ IsNull(df[FirstWith(cid)]["Name"]) => RowsWith(cid) = {}

\* The cleaner returned the first of two customer rows that share a
\* CustomerID and differ in what they hold.
C14_Witness ==
  /\ Returned
  /\ kind = "customers"
  /\ \E cid \in SharedIds :
       /\ RowsWith(cid) # {}
       /\ \E j \in 1..Len(df) :
            /\ df[j]["CustomerID"] = cid
            /\ AsReturned(df[j]) # AsReturned(df[FirstWith(cid)])

\* C10: cleaning a (non-empty) raw table that lacks one expected column
\* raises nothing and returns a table.
C10_MissingColumnTolerated ==
  (CleanDone /\ rawLen > 0 /\ cols # AllCols(kind)) => err = "none"

(***************************************************************************)
(* The warehouse load, load_data_to_db, statement by statement, and the    *)
(* ingest of the cube stage.  The stages of the pipeline run one after the *)
(* other: a load starts only when no ingest is under way, and conversely.  *)
(***************************************************************************)
\* The columns of a prepared file that the load renames.
MappedCsvCols(t) == DOMAIN RenameMap(t)

Keys(n) == [i \in 1..n |-> i]

\* The prepared files a run may find: missing, n rows with distinct keys,
\* two rows sharing a key, and for products a file that still carries the
\* raw Price column.
FileOptions(t) ==
  {MissingFile}
  \cup {File(MappedCsvCols(t), Keys(n)) : n \in 0..MaxLoadRows}
  \cup {File(MappedCsvCols(t), <<1, 1>>)}
  \cup (IF t = "product" THEN {File(MappedCsvCols(t) \cup {"Price"}, <<1>>)} ELSE {})

RowsOf(ks, run) == [i \in 1..Len(ks) |-> [key |-> ks[i], run |-> run]]

HasDuplicateKey(rows) ==
  \E i, j \in 1..Len(rows) : i # j /\ rows[i].key = rows[j].key

\* An insert that loses the last row of the frame.
InsertedRowsButLast(frame, run) ==
  RowsOf(SubSeq(frame.keys, 1, Len(frame.keys) - 1), run)

\* The rows DataFrame.to_sql(table, if_exists="append") adds to a table.
InsertedRows(frame, run) == RowsOf(frame.keys, run)

\* The exception the INSERT of to_sql raises, "none" if none: a column the
\* table does not declare, or a primary key held twice.
InsertError(t, frame, rows, run) ==
  IF ~(frame.cols \subseteq Declared(t)) THEN "OperationalError"
  ELSE IF HasDuplicateKey(rows \o InsertedRows(frame, run)) THEN "IntegrityError"
  ELSE "none"

LoadIdleOrDone == lpc \in {"idle", "done"}
IngestIdleOrDone == cpc \in {"idle", "done"}

StartLoad ==
  /\ LoadIdleOrDone
  /\ IngestIdleOrDone
  /\ runs < MaxRuns
  /\ runs' = runs + 1
  /\ \E c \in FileOptions("customer"), p \in FileOptions("product"),
        s \in FileOptions("sale") :
       prepared' = [customer |-> c, product |-> p, sale |-> s]
  /\ frames' = [t \in Tables |-> NoFrame]
  /\ dbAtStart' = dbFile.rows
  /\ pending' = dbFile.rows
  /\ loadConn' = "none"
  /\ lerr' = "none"
  /\ lpc' = "unlink"
  /\ UNCHANGED <<dbFile, cubeConn, cpc, cubeErr, salesDf>>
  /\ UNCHANGED <<cleanVars, cubeVars, mainVars>>

\* if DB_PATH.exists(): DB_PATH.unlink()
Unlink ==
  /\ lpc = "unlink"
  /\ dbFile' = NoDb
  /\ pending' = EmptyRows
  /\ lpc' = "connect"
  /\ UNCHANGED <<prepared, frames, loadConn, lerr, runs, dbAtStart>>
  /\ UNCHANGED <<cubeConn, cpc, cubeErr, salesDf, cleanVars, cubeVars, mainVars>>

\* conn = sqlite3.connect(DB_PATH): creates the file when there is none.
Connect ==
  /\ lpc = "connect"
  /\ loadConn' = "open"
  /\ dbFile' = [dbFile EXCEPT !.exists = TRUE]
  /\ lpc' = "schema"
  /\ UNCHANGED <<prepared, frames, pending, lerr, runs, dbAtStart>>
  /\ UNCHANGED <<cubeConn, cpc, cubeErr, salesDf, cleanVars, cubeVars, mainVars>>

\* create_schema: CREATE TABLE IF NOT EXISTS takes effect at once.
CreateSchema ==
  /\ lpc = "schema"
  /\ dbFile' = [dbFile EXCEPT !.schema = Tables]
  /\ lpc' = "delete"
  /\ UNCHANGED <<prepared, frames, pending, loadConn, lerr, runs, dbAtStart>>
  /\ UNCHANGED <<cubeConn, cpc, cubeErr, salesDf, cleanVars, cubeVars, mainVars>>

\* delete_existing_records: three DELETEs in the connection's transaction.
DeleteExistingRecords ==
  /\ lpc = "delete"
  /\ pending' = EmptyRows
  /\ lpc' = "read"
  /\ UNCHANGED <<prepared, frames, dbFile, loadConn, lerr, runs, dbAtStart>>
  /\ UNCHANGED <<cubeConn, cpc, cubeErr, salesDf, cleanVars, cubeVars, mainVars>>

\* The three pd.read_csv calls and the three renames.
ReadPrepared ==
  /\ lpc = "read"
  /\ IF \E t \in Tables : ~prepared[t].present
       THEN /\ lerr' = "FileNotFoundError"
            /\ lpc' = "finally"
            /\ UNCHANGED frames
       ELSE /\ frames' = [t \in Tables |->
                            [cols |-> RenameColumns(prepared[t].cols, RenameMap(t)),
                             keys |-> prepared[t].keys]]
            /\ lpc' = "insert_customer"
            /\ UNCHANGED lerr
  /\ UNCHANGED <<prepared, dbFile, pending, loadConn, runs, dbAtStart>>
  /\ UNCHANGED <<cubeConn, cpc, cubeErr, salesDf, cleanVars, cubeVars, mainVars>>

\* DataFrame.to_sql on the load's connection: the INSERT runs in a
\* transaction of its own that to_sql commits when it succeeds and rolls
\* back when it raises; the commit and the rollback take the pending
\* DELETEs and earlier uncommitted rows with them.
ToSql(t, after) ==
  /\ LET e == InsertError(t, frames[t], pending[t], runs)
         added == [pending EXCEPT ![t] = @ \o InsertedRows(frames[t], runs)]
     IN IF e # "none"
          THEN /\ lerr' = e
               /\ pending' = dbFile.rows
               /\ lpc' = "finally"
               /\ UNCHANGED dbFile
          ELSE /\ pending' = added
               /\ dbFile' = [dbFile EXCEPT !.rows = added]
               /\ lpc' = after
               /\ UNCHANGED lerr
  /\ UNCHANGED <<prepared, frames, loadConn, runs, dbAtStart>>
  /\ UNCHANGED <<cubeConn, cpc, cubeErr, salesDf, cleanVars, cubeVars, mainVars>>

InsertCustomers == lpc = "insert_customer" /\ ToSql("customer", "insert_product")
InsertProducts == lpc = "insert_product" /\ ToSql("product", "insert_sale")
InsertSales == lpc = "insert_sale" /\ ToSql("sale", "commit")

\* conn.commit()
Commit ==
  /\ lpc = "commit"
  /\ dbFile' = [dbFile EXCEPT !.rows = pending]
  /\ lpc' = "finally"
  /\ UNCHANGED <<prepared, frames, pending, loadConn, lerr, runs, dbAtStart>>
  /\ UNCHANGED <<cubeConn, cpc, cubeErr, salesDf, cleanVars, cubeVars, mainVars>>

\* finally: conn.close(); what was not committed is lost.
Finally ==
  /\ lpc = "finally"
  /\ loadConn' = IF loadConn = "open" THEN "closed" ELSE loadConn
  /\ pending' = dbFile.rows
  /\ lpc' = "done"
  /\ UNCHANGED <<prepared, frames, dbFile, lerr, runs, dbAtStart>>
  /\ UNCHANGED <<cubeConn, cpc, cubeErr, salesDf, cleanVars, cubeVars, mainVars>>

\* ingest_sales_data_from_dw: conn = sqlite3.connect(DB_PATH)
IngestConnect ==
  /\ IngestIdleOrDone
  /\ LoadIdleOrDone
  /\ cubeConn' = "open"
  /\ dbFile' = [dbFile EXCEPT !.exists = TRUE]
  /\ cubeErr' = "none"
  /\ salesDf' = <<>>
  /\ cpc' = "select"
  /\ UNCHANGED <<prepared, frames, pending, loadConn, lpc, lerr, runs, dbAtStart>>
  /\ UNCHANGED <<cleanVars, cubeVars, mainVars>>

\* pd.read_sql_query("SELECT * FROM sale", conn); conn.close(); return.  The
\* query raises when the file has no sale table, and the except clause
\* logs and re-raises.
IngestSelect ==
  /\ cpc = "select"
  /\ IF "sale" \in dbFile.schema
       THEN /\ salesDf' = dbFile.rows["sale"]
            /\ cubeConn' = "closed"
            /\ UNCHANGED cubeErr
       ELSE /\ cubeErr' = "DatabaseError"
            /\ UNCHANGED <<salesDf, cubeConn>>
  /\ cpc' = "done"
  /\ UNCHANGED <<prepared, frames, dbFile, pending, loadConn, lpc, lerr, runs, dbAtStart>>
  /\ UNCHANGED <<cleanVars, cubeVars, mainVars>>

InitLoad == CleanIdle /\ LoadIdle /\ CubeIdle /\ MainIdle

NextLoad ==
  \/ StartLoad
  \/ Unlink
  \/ Connect
  \/ CreateSchema
  \/ DeleteExistingRecords
  \/ ReadPrepared
  \/ InsertCustomers
  \/ InsertProducts
  \/ InsertSales
  \/ Commit
  \/ Finally
  \/ IngestConnect
  \/ IngestSelect

SpecLoad == InitLoad /\ [][NextLoad]_vars

LoadFailed == lpc = "done" /\ lerr # "none"
LoadSucceeded == lpc = "done" /\ lerr = "none"
RowsOfRun(t, r) == {i \in 1..Len(dbFile.rows[t]) : dbFile.rows[t][i].run = r}

\* C2: after a load run that failed, the warehouse holds no row this run
\* inserted: it is as it was before the run, or empty.
C2_FailedLoadLeavesNoRows ==
  LoadFailed =>
    /\ \A t \in Tables : RowsOfRun(t, runs) = {}
    /\ dbFile.rows = dbAtStart \/ dbFile.rows = EmptyRows

\* C3: after a load run that succeeded, every warehouse table holds exactly
\* as many rows as the prepared file read in that run, all of them rows of
\* that run, whatever earlier runs stored.
C3_RowCountAfterLoad ==
  LoadSucceeded =>
    \A t \in Tables :
      /\ Len(dbFile.rows[t]) = Len(prepared[t].keys)
      /\ Cardinality(RowsOfRun(t, runs)) = Len(prepared[t].keys)

\* A second run succeeded over a warehouse that the first run had filled
\* with a different number of customer rows.
C3_Witness ==
  /\ LoadSucceeded
  /\ runs = 2
  /\ Len(dbAtStart["customer"]) > 0
  /\ Len(dbAtStart["customer"]) # Len(prepared["customer"].keys)
  /\ Len(prepared["sale"].keys) > 0

\* C4: a connection that was opened is closed when its function is left,
\* by return or by exception, in load_data_to_db and in
\* ingest_sales_data_from_dw.
C4_ConnectionsClosed ==
  /\ lpc = "done" => loadConn # "open"
  /\ cpc = "done" => cubeConn # "open"

(***************************************************************************)
(* The cube builder: generate_column_names and create_olap_cube.  Column   *)
(* and function names are sequences of characters; measures is the mapping *)
(* in its insertion order, each entry a column with either one function    *)
(* name or a list of them.                                                 *)
(***************************************************************************)
RECURSIVE RStripUnderscore(_)
RStripUnderscore(name) ==
  IF name # <<>> /\ name[Len(name)] = "_"
    THEN RStripUnderscore(SubSeq(name, 1, Len(name) - 1))
    ELSE name

\* f"{column}_{func}"
MeasureName(column, func) == column \o <<"_">> \o func

\* The names one entry of measures appends, a list entry one per function.
RECURSIVE EntryNames(_, _)
EntryNames(column, funcs) ==
  IF funcs = <<>> THEN <<>>
  ELSE <<MeasureName(column, Head(funcs))>> \o EntryNames(column, Tail(funcs))

RECURSIVE AppendMeasureNames(_, _)
AppendMeasureNames(column_names, ms) ==
  IF ms = <<>> THEN column_names
  ELSE AppendMeasureNames(column_names \o EntryNames(Head(ms).col, Head(ms).funcs),
                          Tail(ms))

\* generate_column_names with the trimming applied to the measure names only.
GenerateColumnNamesTrimMeasures(dimensions, ms) ==
  LET tail == AppendMeasureNames(<<>>, ms)
  IN dimensions \o [i \in 1..Len(tail) |-> RStripUnderscore(tail[i])]

GenerateColumnNames(dimensions, ms) ==
  LET column_names == AppendMeasureNames(dimensions, ms)
  IN [i \in 1..Len(column_names) |-> RStripUnderscore(column_names[i])]

\* The columns of the fact tables of the model: two dimensions, one of them
\* named with a trailing underscore, and two measures.
ColP == <<"p">>
ColS == <<"s", "_">>
ColM == <<"m">>
ColN == <<"n", "_">>
\* The two columns of the sale table that cubing.main groups and sums.
ColProductId == <<"p", "r", "o", "d", "u", "c", "t", "_", "i", "d">>
ColSaleAmount == <<"s", "a", "l", "e", "_", "a", "m", "o", "u", "n", "t">>
FactCols == {ColP, ColS, ColM, ColN, ColProductId, ColSaleAmount}

FnSum == <<"s", "u", "m">>
FnCount == <<"c", "o", "u", "n", "t">>
FnMax == <<"m", "a", "x">>
FnEmpty == <<>>
KnownFunctions == {FnSum, FnCount, FnMax}

FactRow(p, sv, m) ==
  (ColP :> p) @@ (ColS :> sv) @@ (ColM :> m) @@ (ColN :> Num(1))
  @@ (ColProductId :> p) @@ (ColSaleAmount :> m)

FactRows ==
  {FactRow(p, sv, m) :
     p \in {Num(1), Num(2), NaN}, sv \in {Num(1), NaN}, m \in {Num(10), Num(20)}}

DimLists == {<<ColP>>, <<ColS>>, <<ColP, ColS>>, <<ColS, ColP>>}

\* Dimension lists that also name columns the fact table lacks, and the
\* empty list.
DimNames == {ColP, ColS, <<"_">>, <<"q", "_", "_">>, <<"_", "r">>}
WideDimLists ==
  {<<>>} \cup {<<a>> : a \in DimNames}
  \cup {ab \in {<<a, b>> : a \in DimNames, b \in DimNames} : ab[1] # ab[2]}

One(column, func) == [col |-> column, isList |-> FALSE, funcs |-> <<func>>]
Many(column, fs) == [col |-> column, isList |-> TRUE, funcs |-> fs]

MeasureMaps ==
  { <<Many(ColM, <<FnSum>>)>>,
    <<One(ColM, FnSum)>>,
    <<Many(ColM, <<FnSum, FnCount>>)>>,
    <<Many(ColM, <<FnMax>>), One(ColN, FnCount)>>,
    <<One(ColN, FnSum), Many(ColM, <<FnCount, FnMax>>)>>,
    <<Many(ColN, <<FnEmpty>>)>>,
    <<One(ColM, FnEmpty)>> }

WideMeasureMaps ==
  MeasureMaps
  \cup { <<One(ColM, <<"_">>)>>,
         <<Many(ColN, <<FnSum, FnEmpty>>), One(ColM, FnMax)>>,
         <<Many(<<"k">>, <<FnSum>>)>> }

\* The tuple of dimension values of a fact row.
DimTuple(row, dimensions) == [i \in 1..Len(dimensions) |-> row[dimensions[i]]]

RECURSIVE TupleLess(_, _)
TupleLess(a, b) ==
  /\ a # <<>>
  /\ \/ Head(a).n < Head(b).n
     \/ Head(a) = Head(b) /\ TupleLess(Tail(a), Tail(b))

\* A set of tuples as the ascending sequence groupby(sort=True) yields.
RECURSIVE SortTuples(_)
SortTuples(T) ==
  IF T = {} THEN <<>>
  ELSE LET least == CHOOSE a \in T : \A b \in T \ {a} : TupleLess(a, b)
       IN <<least>> \o SortTuples(T \ {least})

\* The group keys of DataFrame.groupby(dimensions): dropna defaults to True,
\* so a row with a missing dimension value belongs to no group.
GroupKeys(rows, dimensions) ==
  {DimTuple(rows[i], dimensions) : i \in
     {j \in 1..Len(rows) : \A d \in 1..Len(dimensions) : ~IsNull(rows[j][dimensions[d]])}}

GroupRows(rows, dimensions, key) ==
  Pick(rows, {i \in 1..Len(rows) : DimTuple(rows[i], dimensions) = key})

RECURSIVE SumInts(_)
SumInts(v) == IF v = <<>> THEN 0 ELSE Head(v) + SumInts(Tail(v))

\* One aggregation of a measure column over the rows of a group.
Aggregate(rows, column, func) ==
  LET v == ColValues(rows, column)
  IN CASE func = FnSum -> Fixed(SumInts(v))
       [] func = FnCount -> Num(Len(v))
       [] func = FnMax -> IF v = <<>> THEN NaN ELSE Fixed(v[Len(v)])

RECURSIVE EntryAggregates(_, _, _)
EntryAggregates(rows, column, funcs) ==
  IF funcs = <<>> THEN <<>>
  ELSE <<Aggregate(rows, column, Head(funcs))>> \o EntryAggregates(rows, column, Tail(funcs))

RECURSIVE AllAggregates(_, _)
AllAggregates(rows, ms) ==
  IF ms = <<>> THEN <<>>
  ELSE EntryAggregates(rows, Head(ms).col, Head(ms).funcs) \o AllAggregates(rows, Tail(ms))

\* An aggregation that answers one all-missing row when there is no group.
AggregatedRowsOrTotals(rows, dimensions, ms) ==
  LET keys == SortTuples(GroupKeys(rows, dimensions))
  IN IF keys = <<>>
       THEN << [i \in 1..(Len(dimensions) + Len(AllAggregates(rows, ms))) |-> NaN] >>
       ELSE [g \in 1..Len(keys) |->
               keys[g] \o AllAggregates(GroupRows(rows, dimensions, keys[g]), ms)]

\* grouped.agg(measures).reset_index(): one row per group, the dimension
\* values followed by the aggregates.
AggregatedRows(rows, dimensions, ms) ==
  LET keys == SortTuples(GroupKeys(rows, dimensions))
  IN [g \in 1..Len(keys) |->
        keys[g] \o AllAggregates(GroupRows(rows, dimensions, keys[g]), ms)]

\* The exception create_olap_cube re-raises, "none" if none: no grouping
\* column at all, a grouping or measure column the table lacks, or a
\* function name agg does not know.
CubeError(dimensions, ms) ==
  IF dimensions = <<>> THEN "ValueError"
  ELSE IF \E i \in 1..Len(dimensions) : dimensions[i] \notin FactCols THEN "KeyError"
  ELSE IF \E i \in 1..Len(ms) : ms[i].col \notin FactCols THEN "KeyError"
  ELSE IF \E i \in 1..Len(ms) : \E j \in 1..Len(ms[i].funcs) :
            ms[i].funcs[j] \notin KnownFunctions
    THEN "AttributeError"
    ELSE "none"

CubeStart(rows, dimensions, ms) ==
  /\ fact = rows
  /\ dims = dimensions
  /\ measures = ms
  /\ names = <<>>
  /\ cube = NoCube
  /\ qpc = "ready"
  /\ csv = <<>>
  /\ qerr = "none"

\* A direct call of generate_column_names.
GenerateNames ==
  /\ qpc = "ready"
  /\ names' = GenerateColumnNames(dims, measures)
  /\ qpc' = "named"
  /\ UNCHANGED <<fact, dims, measures, cube, csv, qerr>>
  /\ UNCHANGED <<cleanVars, loadVars, mainVars>>

\* create_olap_cube: group, aggregate, reset the index, name the columns.
CreateOlapCube ==
  /\ qpc = "ready"
  /\ IF CubeError(dims, measures) # "none"
       THEN /\ qerr' = CubeError(dims, measures)
            /\ UNCHANGED <<cube, names>>
       ELSE /\ names' = GenerateColumnNames(dims, measures)
            /\ cube' = [columns |-> names', rows |-> AggregatedRows(fact, dims, measures)]
            /\ UNCHANGED qerr
  /\ qpc' = "cubed"
  /\ UNCHANGED <<fact, dims, measures, csv>>
  /\ UNCHANGED <<cleanVars, loadVars, mainVars>>

\* cubing.main, entered with the table ingest_sales_data_from_dw returned.
MainDimensions == <<ColProductId>>
MainMeasures == <<Many(ColSaleAmount, <<FnSum>>)>>

MainStart(rows) ==
  /\ fact = rows
  /\ dims = <<>>
  /\ measures = <<>>
  /\ names = <<>>
  /\ cube = NoCube
  /\ qpc = "main"
  /\ csv = <<>>
  /\ qerr = "none"

\* main: set dimensions and measures, call create_olap_cube.
MainCreateCube ==
  /\ qpc = "main"
  /\ dims' = MainDimensions
  /\ measures' = MainMeasures
  /\ IF CubeError(MainDimensions, MainMeasures) # "none"
       THEN /\ qerr' = CubeError(MainDimensions, MainMeasures)
            /\ qpc' = "main_failed"
            /\ UNCHANGED <<cube, names>>
       ELSE /\ names' = GenerateColumnNames(MainDimensions, MainMeasures)
            /\ cube' = [columns |-> names',
                        rows |-> AggregatedRows(fact, MainDimensions, MainMeasures)]
            /\ qpc' = "main_cubed"
            /\ UNCHANGED qerr
  /\ UNCHANGED <<fact, csv>>
  /\ UNCHANGED <<cleanVars, loadVars, mainVars>>

\* write_cube_to_csv: cube.to_csv(path, index=False) writes the header
\* line and then one line per row.
WriteCubeToCsv ==
  /\ qpc = "main_cubed"
  /\ csv' = <<cube.columns>> \o cube.rows
  /\ qpc' = "main_done"
  /\ UNCHANGED <<fact, dims, measures, names, cube, qerr>>
  /\ UNCHANGED <<cleanVars, loadVars, mainVars>>

\* Fact tables of up to MaxFactRows rows under the dimension lists and
\* measure mappings of the fact columns, and one-row fact tables under the
\* wider lists and mappings.
InitCube ==
  /\ \/ \E rows \in TablesOver(FactRows, MaxFactRows) :
          \E dimensions \in DimLists :
            \E ms \in MeasureMaps : CubeStart(rows, dimensions, ms)
     \/ \E rows \in TablesOver(FactRows, 1) :
          \E dimensions \in WideDimLists :
            \E ms \in WideMeasureMaps : CubeStart(rows, dimensions, ms)
     \/ \E rows \in TablesOver(FactRows, MaxFactRows) : MainStart(rows)
  /\ CleanIdle /\ LoadIdle /\ MainIdle

NextCube ==
  \/ GenerateNames
  \/ CreateOlapCube
  \/ MainCreateCube
  \/ WriteCubeToCsv

SpecCube == InitCube /\ [][NextCube]_vars

CubeBuilt == qpc = "cubed" /\ qerr = "none"

RECURSIVE PairCount(_)
PairCount(ms) == IF ms = <<>> THEN 0 ELSE Len(Head(ms).funcs) + PairCount(Tail(ms))

\* C7: the cube has one row per distinct tuple of dimension values of the
\* fact table, a tuple with a missing value included, and len(dimensions)
\* plus one column per (measure, function) pair.
C7_OneRowPerDimensionTuple ==
  CubeBuilt =>
    /\ Len(cube.rows) = Cardinality({DimTuple(fact[i], dims) : i \in 1..Len(fact)})
    /\ Len(cube.columns) = Len(dims) + PairCount(measures)
    /\ \A g \in 1..Len(cube.rows) : Len(cube.rows[g]) = Len(cube.columns)

\* What a caller of create_olap_cube must get right for any fact table:
\* at least one dimension, columns the table has, functions agg knows.
ArgumentsFit ==
  /\ dims # <<>>
  /\ \A i \in 1..Len(dims) : dims[i] \in FactCols
  /\ \A i \in 1..Len(measures) :
       /\ measures[i].col \in FactCols
       /\ \A j \in 1..Len(measures[i].funcs) : measures[i].funcs[j] \in KnownFunctions

MainHeader ==
  << ColProductId, ColSaleAmount \o <<"_">> \o FnSum >>

\* x is y without its trailing underscores.
IsTrimOf(x, y) ==
  \E k \in 0..Len(y) :
    /\ x = SubSeq(y, 1, k)
    /\ \A i \in (k + 1)..Len(y) : y[i] = "_"
    /\ k = 0 \/ y[k] # "_"

\* The (measure, function) pairs in mapping order.
RECURSIVE Pairs(_)
Pairs(ms) ==
  IF ms = <<>> THEN <<>>
  ELSE [j \in 1..Len(Head(ms).funcs) |-> <<Head(ms).col, Head(ms).funcs[j]>>]
       \o Pairs(Tail(ms))

\* After the dimensions comes one trimmed "{measure}_{function}" per pair.
MeasureNamesInOrder ==
  /\ Len(names) = Len(dims) + Len(Pairs(measures))
  /\ \A k \in 1..Len(Pairs(measures)) :
       IsTrimOf(names[Len(dims) + k],
                Pairs(measures)[k][1] \o <<"_">> \o Pairs(measures)[k][2])

\* C13: on a fact table without rows create_olap_cube raises nothing and
\* returns a table without rows whose columns are the dimension names and
\* the "{measure}_{function}" names (trailing underscores trimmed); and
\* cubing.main on such a table raises nothing and writes a file that holds
\* the header line product_id, sale_amount_sum and nothing else.
C13_EmptyFactTableGivesHeaders ==
  fact = <<>> =>
    /\ (qpc = "cubed" /\ ArgumentsFit) =>
         /\ qerr = "none"
         /\ cube.rows = <<>>
         /\ cube.columns = names
         /\ MeasureNamesInOrder
         /\ \A i \in 1..Len(dims) : IsTrimOf(cube.columns[i], dims[i])
    /\ qpc # "main_failed"
    /\ qpc \in {"main_cubed", "main_done"} =>
         qerr = "none" /\ cube = [columns |-> MainHeader, rows |-> <<>>]
    /\ qpc = "main_done" => csv = <<MainHeader>>

\* cubing.main ran to its end on a sale table without rows.
C13_Witness ==
  /\ fact = <<>>
  /\ qpc = "main_done"
  /\ csv # <<>>

\* C8 as claimed: generate_column_names returns the dimension names
\* unchanged, in order, then one trimmed "{measure}_{function}" per pair in
\* mapping order.
C8_DimensionNamesUnchanged ==
  qpc = "named" =>
    /\ MeasureNamesInOrder
    /\ \A i \in 1..Len(dims) : names[i] = dims[i]

\* C8 as amended: generate_column_names returns, in order, every dimension
\* name and then every "{measure}_{function}" in mapping order, each with
\* its trailing underscores removed, dimension names included.
C8_AllNamesTrimmed ==
  qpc = "named" =>
    /\ MeasureNamesInOrder
    /\ \A i \in 1..Len(dims) : IsTrimOf(names[i], dims[i])

\* Names were generated for a dimension that ends with an underscore and a
\* measure with an empty function name.
C8_Witness ==
  /\ qpc = "named"
  /\ \E i \in 1..Len(dims) : dims[i] # <<>> /\ dims[i][Len(dims[i])] = "_"
  /\ \E k \in 1..Len(Pairs(measures)) : Pairs(measures)[k][2] = <<>>
  /\ Len(dims) > 1

(***************************************************************************)
(* The clean-stage driver, data_prep.main: one loop iteration per file, in *)
(* the order sales, customers, products.                                   *)
(***************************************************************************)
FilesToProcess == <<"sales", "customers", "products">>

Input(cs, t) == [present |-> TRUE, cols |-> cs, tbl |-> t]
\* A file that exists and holds no header: pd.read_csv raises on it.
Unreadable == [present |-> TRUE, cols |-> {}, tbl |-> <<>>]

SampleRows(k) ==
  CASE k = "sales" ->
         {SalesRow(Num(1), GoodDate, Num(10), Str(Free), Num(1)),
          SalesRow(Num(2), BadDate, Question, NaN, Num(1))}
    [] k = "customers" ->
         {CustomersRow(Num(1), Str(<<" ", "a">>), NaN, GoodDate, Num(3)),
          CustomersRow(Num(2), NaN, NaN, BadDate, NaN)}
    [] k = "products" ->
         {ProductsRow(Num(1), Str(<<"a", " ">>), NaN, Num(8)),
          ProductsRow(Num(2), NaN, NaN, Question)}

\* The raw files main may find: none, an unreadable one, tables of the
\* sample rows (the empty table included), and a table without its
\* primary-key column.
MainInputs(k) ==
  {MissingInput, Unreadable}
  \cup {Input(AllCols(k), t) : t \in TablesOver(SampleRows(k), MaxMainRows)}
  \cup {Input(AllCols(k) \ {PrimaryKey(k)},
              <<Project(r, AllCols(k) \ {PrimaryKey(k)})>>) : r \in SampleRows(k)}

\* The exception read_csv_file raises on a file, "none" if none.
ReadError(f) ==
  IF ~f.present THEN "FileNotFoundError"
  ELSE IF f.cols = {} THEN "EmptyDataError"
  ELSE "none"

\* The exception the try block of an iteration raises, "none" if none.
IterationError(k, f) ==
  IF ReadError(f) # "none" THEN ReadError(f) ELSE Clean(k, f.cols, f.tbl).err

\* An except clause that swallows every exception.
OnErrorSwallowAll(e) == "skip"

\* The except clauses: FileNotFoundError is logged and the loop goes on,
\* any other exception is logged and re-raised.
OnError(e) == IF e = "FileNotFoundError" THEN "skip" ELSE "raise"

Current == FilesToProcess[mi]
InLoop == mstate = "running" /\ mi <= Len(FilesToProcess)

\* read, clean, save
ProcessFile ==
  /\ InLoop
  /\ IterationError(Current, rawFiles[Current]) = "none"
  /\ saved' = [saved EXCEPT ![Current] =
                 [written |-> TRUE,
                  tbl |-> Clean(Current, rawFiles[Current].cols, rawFiles[Current].tbl).tbl]]
  /\ handled' = Append(handled, Current)
  /\ mi' = mi + 1
  /\ UNCHANGED <<rawFiles, mainErr, mstate>>
  /\ UNCHANGED <<cleanVars, loadVars, cubeVars>>

\* except FileNotFoundError: warning, next file
SkipFile ==
  /\ InLoop
  /\ IterationError(Current, rawFiles[Current]) # "none"
  /\ OnError(IterationError(Current, rawFiles[Current])) = "skip"
  /\ mi' = mi + 1
  /\ UNCHANGED <<rawFiles, saved, handled, mainErr, mstate>>
  /\ UNCHANGED <<cleanVars, loadVars, cubeVars>>

\* except Exception: error, raise
AbortRun ==
  /\ InLoop
  /\ IterationError(Current, rawFiles[Current]) # "none"
  /\ OnError(IterationError(Current, rawFiles[Current])) = "raise"
  /\ mainErr' = IterationError(Current, rawFiles[Current])
  /\ mstate' = "aborted"
  /\ UNCHANGED <<rawFiles, mi, saved, handled>>
  /\ UNCHANGED <<cleanVars, loadVars, cubeVars>>

\* The loop is over: the closing log lines.
Complete ==
  /\ mstate = "running"
  /\ mi > Len(FilesToProcess)
  /\ mstate' = "completed"
  /\ UNCHANGED <<rawFiles, mi, saved, handled, mainErr>>
  /\ UNCHANGED <<cleanVars, loadVars, cubeVars>>

InitMain ==
  /\ rawFiles \in [Kinds -> UNION {MainInputs(k) : k \in Kinds}]
  /\ \A k \in Kinds : rawFiles[k] \in MainInputs(k)
  /\ mi = 1
  /\ saved = [k \in Kinds |-> NotSaved]
  /\ handled = <<>>
  /\ mainErr = "none"
  /\ mstate = "running"
  /\ CleanIdle /\ LoadIdle /\ CubeIdle

NextMain ==
  \/ ProcessFile
  \/ SkipFile
  \/ AbortRun
  \/ Complete

SpecMain == InitMain /\ [][NextMain]_vars

MainOver == mstate \in {"completed", "aborted"}
Missing(i) == ~rawFiles[FilesToProcess[i]].present
Fails(i) ==
  /\ ~Missing(i)
  /\ IterationError(FilesToProcess[i], rawFiles[FilesToProcess[i]]) # "none"
\* No file before the i-th fails.
NoneFailsBefore(i) == \A j \in 1..(i - 1) : ~Fails(j)

\* C9: when main is over, a missing raw file was skipped and nothing else:
\* every present file with no failing file before it, itself not failing,
\* was cleaned and saved; the first failing file aborted the run with its
\* exception, and neither it nor any later file has an output.
C9_SkipMissingAbortOnError ==
  MainOver =>
    /\ \A i \in 1..Len(FilesToProcess) :
         saved[FilesToProcess[i]].written <=>
           (~Missing(i) /\ ~Fails(i) /\ NoneFailsBefore(i))
    /\ mstate = "aborted" <=> \E i \in 1..Len(FilesToProcess) : Fails(i)
    /\ \A i \in 1..Len(FilesToProcess) :
         (Fails(i) /\ NoneFailsBefore(i)) =>
           mainErr = IterationError(FilesToProcess[i], rawFiles[FilesToProcess[i]])
    /\ mstate = "completed" => mainErr = "none"

\* The sales file was missing, the customers file was cleaned and saved
\* after it, and the products file made its cleaner raise.
C9_Witness ==
  /\ mstate = "aborted"
  /\ Missing(1)
  /\ saved["customers"].written
  /\ Len(saved["customers"].tbl) > 0
  /\ mainErr = "KeyError"
  /\ ~saved["products"].written

====
